---- MODULE Spec2Model ----
(***************************************************************************)
(* Model of PythonSignatureClient                                          *)
(* (src/app/api/auth/client/examples/python-example.py): request           *)
(* canonicalisation, timestamp generation, signing, header generation and  *)
(* dispatch of signed requests.                                            *)
(*                                                                         *)
(* A Python str is a sequence of one-character strings.  None is the       *)
(* one-element sequence <<"<None>">>, which no str equals.  A dict is a    *)
(* function from its keys to its values.  A call's outcome is a record     *)
(* whose exc field names the exception raised ("" when it returned).       *)
(***************************************************************************)
EXTENDS Integers, Sequences, FiniteSets, TLC

VARIABLES
    signer,  \* the PythonSignatureClient object, <<>> before it is constructed
    last,    \* the call the sequential caller made last, with its outcome
    canon,   \* the build_signature_string calls made, each with its outcome
    pc,      \* the line each thread is at in generate_signature_headers
    loc      \* the parameters and locals of each thread's call

vars == <<signer, last, canon, pc, loc>>

----------------------------------------------------------------------------
(* Python values *)

None == <<"<None>">>

NL == "\n"

LowerChars == <<"a","b","c","d","e","f","g","h","i","j","k","l","m",
                "n","o","p","q","r","s","t","u","v","w","x","y","z">>

UpperChars == <<"A","B","C","D","E","F","G","H","I","J","K","L","M",
                "N","O","P","Q","R","S","T","U","V","W","X","Y","Z">>

DigitChars == <<"0","1","2","3","4","5","6","7","8","9">>

UpperChar(c) ==
    IF \E i \in 1..Len(LowerChars) : LowerChars[i] = c
    THEN UpperChars[CHOOSE i \in 1..Len(LowerChars) : LowerChars[i] = c]
    ELSE c

\* str.upper()
Upper(s) == [i \in 1..Len(s) |-> UpperChar(s[i])]

\* dict.get(key, default)
DictGet(d, key, default) == IF key \in DOMAIN d THEN d[key] ELSE default

RECURSIVE Concat(_, _)
\* the items of parts with sep between consecutive items
Concat(parts, sep) ==
    IF Len(parts) = 0 THEN <<>>
    ELSE IF Len(parts) = 1 THEN parts[1]
    ELSE parts[1] \o sep \o Concat(Tail(parts), sep)

\* sep.join(parts): TypeError when an item is not a str
StrJoin(sep, parts) ==
    IF \E i \in 1..Len(parts) : parts[i] = None
    THEN [exc |-> "TypeError", ret |-> None]
    ELSE [exc |-> "", ret |-> Concat(parts, sep)]

----------------------------------------------------------------------------
(* build_signature_string *)

RequiredKeys == {"timestamp", "method", "path", "appId"}

\* a join that puts nothing between the items
BuildSignatureStringNoSeparator(data) ==
    IF ~(RequiredKeys \subseteq DOMAIN data)
    THEN [exc |-> "KeyError", ret |-> None]
    ELSE StrJoin(<<>>, <<data["timestamp"], Upper(data["method"]), data["path"],
                         data["appId"], DictGet(data, "body", <<>>)>>)

\* appId and path in each other's place
BuildSignatureStringSwapped(data) ==
    IF ~(RequiredKeys \subseteq DOMAIN data)
    THEN [exc |-> "KeyError", ret |-> None]
    ELSE StrJoin(<<NL>>, <<data["timestamp"], Upper(data["method"]), data["appId"],
                           data["path"], DictGet(data, "body", <<>>)>>)

BuildSignatureString(data) ==
    IF ~(RequiredKeys \subseteq DOMAIN data)
    THEN [exc |-> "KeyError", ret |-> None]
    ELSE StrJoin(<<NL>>, <<data["timestamp"], Upper(data["method"]), data["path"],
                           data["appId"], DictGet(data, "body", <<>>)>>)

----------------------------------------------------------------------------
(* Inputs of the canonicalisation runs *)

T2024 == <<"2","0","2","4","-","0","1","-","0","1","T",
           "0","0",":","0","0",":","0","0","Z">>

CanonTimestamps == {T2024, <<"1">>}

CanonMethods == {<<"g","e","t">>, <<"G","E","T">>, <<"P","O","S","T">>}

CanonPaths == {<<"/","a","p","i","/","u","s","e","r","s">>, <<"/","p">>, <<"/","p","x">>,
               <<"/","p",NL,"x">>}

CanonAppIds == {<<"a","p","p","1">>, <<"x">>, <<"x",NL,"a","p","p","1">>}

CanonBodies == {<<>>, <<"x">>, <<"a","p","p","1",NL>>}

\* the dicts a caller passes: every key present, the body possibly absent or
\* None, or a required key missing
CanonData ==
    {[timestamp |-> t, method |-> m, path |-> p, appId |-> a, body |-> b] :
        t \in CanonTimestamps, m \in CanonMethods, p \in CanonPaths,
        a \in CanonAppIds, b \in CanonBodies \cup {None}}
    \cup {[timestamp |-> t, method |-> m, path |-> p, appId |-> a] :
        t \in {T2024}, m \in CanonMethods, p \in CanonPaths, a \in CanonAppIds}
    \cup {[method |-> m, path |-> p, appId |-> a, body |-> <<>>] :
        m \in {<<"g","e","t">>}, p \in {<<"/","p">>}, a \in {<<"x">>}}

NoCall == [op |-> "none"]

----------------------------------------------------------------------------
(* datetime.now(timezone.utc).isoformat() and str.replace *)

RECURSIVE Pad(_, _)
\* n in decimal, zero-padded to w digits
Pad(n, w) == IF w = 0 THEN <<>> ELSE Pad(n \div 10, w - 1) \o <<DigitChars[(n % 10) + 1]>>

UtcOffset == <<"+","0","0",":","0","0">>

\* datetime.isoformat() of an aware UTC datetime: the fraction is printed
\* only when microsecond is not zero
IsoFormat(dt) ==
    Pad(dt.year, 4) \o <<"-">> \o Pad(dt.month, 2) \o <<"-">> \o Pad(dt.day, 2)
    \o <<"T">> \o Pad(dt.hour, 2) \o <<":">> \o Pad(dt.minute, 2) \o <<":">>
    \o Pad(dt.second, 2)
    \o (IF dt.microsecond # 0 THEN <<".">> \o Pad(dt.microsecond, 6) ELSE <<>>)
    \o UtcOffset

StartsWith(s, prefix) ==
    /\ Len(prefix) <= Len(s)
    /\ \A i \in 1..Len(prefix) : s[i] = prefix[i]

RECURSIVE StrReplace(_, _, _)
\* s.replace(old, new) for a non-empty old: every occurrence, left to right
StrReplace(s, old, new) ==
    IF Len(s) = 0 THEN <<>>
    ELSE IF StartsWith(s, old)
         THEN new \o StrReplace(SubSeq(s, Len(old) + 1, Len(s)), old, new)
         ELSE <<Head(s)>> \o StrReplace(Tail(s), old, new)

\* generate_timestamp, for the clock reading now
GenerateTimestamp(now) == StrReplace(IsoFormat(now), UtcOffset, <<"Z">>)

\* the readings of datetime.now(timezone.utc)
Clock ==
    {[year |-> 2024, month |-> 1, day |-> 1, hour |-> 0, minute |-> 0,
      second |-> 0, microsecond |-> 0],
     [year |-> 2024, month |-> 12, day |-> 31, hour |-> 23, minute |-> 59,
      second |-> 59, microsecond |-> 123456],
     [year |-> 2025, month |-> 6, day |-> 15, hour |-> 12, minute |-> 30,
      second |-> 7, microsecond |-> 1]}

----------------------------------------------------------------------------
(* __init__ and _load_private_key *)

SUPPORTED_ALGORITHMS == {"RS256", "RS512", "ES256", "ES512"}

\* what serialization.load_pem_private_key makes of each key text; a text
\* outside the domain does not parse
PemKinds == [PEM_RSA |-> "RSA", PEM_EC_P256 |-> "EC_P256",
             PEM_EC_P521 |-> "EC_P521", PEM_ED25519 |-> "ED25519"]

\* _load_private_key: the key object, or ValueError
LoadPrivateKey(pem) ==
    IF pem \in DOMAIN PemKinds
    THEN [exc |-> "", ret |-> [kind |-> PemKinds[pem], pem |-> pem]]
    ELSE [exc |-> "ValueError", ret |-> [kind |-> "", pem |-> pem]]

\* a constructor that does not check the algorithm
Init__NoAlgorithmCheck(config) ==
    IF ~({"appId", "privateKey"} \subseteq DOMAIN config)
    THEN [exc |-> "KeyError", ret |-> <<>>]
    ELSE IF LoadPrivateKey(config["privateKey"]).exc # ""
    THEN [exc |-> "ValueError", ret |-> <<>>]
    ELSE [exc |-> "",
          ret |-> <<[app_id |-> config["appId"],
                     private_key |-> config["privateKey"],
                     algorithm |-> DictGet(config, "algorithm", "RS256"),
                     key_id |-> DictGet(config, "keyId", None),
                     base_url |-> DictGet(config, "baseUrl", <<>>),
                     private_key_obj |-> LoadPrivateKey(config["privateKey"]).ret]>>]

\* __init__: the one-element sequence holding the new object, or the exception
Init__(config) ==
    IF ~({"appId", "privateKey"} \subseteq DOMAIN config)
    THEN [exc |-> "KeyError", ret |-> <<>>]
    ELSE IF DictGet(config, "algorithm", "RS256") \notin SUPPORTED_ALGORITHMS
    THEN [exc |-> "ValueError", ret |-> <<>>]
    ELSE IF LoadPrivateKey(config["privateKey"]).exc # ""
    THEN [exc |-> "ValueError", ret |-> <<>>]
    ELSE [exc |-> "",
          ret |-> <<[app_id |-> config["appId"],
                     private_key |-> config["privateKey"],
                     algorithm |-> DictGet(config, "algorithm", "RS256"),
                     key_id |-> DictGet(config, "keyId", None),
                     base_url |-> DictGet(config, "baseUrl", <<>>),
                     private_key_obj |-> LoadPrivateKey(config["privateKey"]).ret]>>]

----------------------------------------------------------------------------
(* generate_signature *)

\* the arguments each kind of key object's sign() accepts
SignsAsRSA(key) == key.kind = "RSA"

SignsAsEC(key) == key.kind \in {"EC_P256", "EC_P521"}

\* base64 of the signature bytes, kept symbolic: the scheme, the digest,
\* the key, the signer's random nonce ("" for PKCS#1 v1.5) and the data
B64Signature(scheme, digest, key, nonce, data) ==
    <<"b64", scheme, digest, key.pem, nonce>> \o data

\* the nonces ECDSA may draw inside sign()
NoncesFor(algorithm) == IF algorithm \in {"ES256", "ES512"} THEN {"n1", "n2"} ELSE {""}

\* a generate_signature that signs with RS256 whatever is configured
GenerateSignatureAlwaysRS256(self, data, nonce) ==
    IF SignsAsRSA(self.private_key_obj)
    THEN [exc |-> "", ret |-> B64Signature("PKCS1v15", "SHA256", self.private_key_obj, "", data)]
    ELSE [exc |-> "RuntimeError", ret |-> None]

\* generate_signature: every exception of the try block, the TypeError of a
\* sign() called with the other key kind's arguments included, leaves as
\* RuntimeError
GenerateSignature(self, data, nonce) ==
    IF self.algorithm \in {"RS256", "RS512"}
    THEN IF SignsAsRSA(self.private_key_obj)
         THEN [exc |-> "",
               ret |-> B64Signature("PKCS1v15",
                                    IF self.algorithm = "RS256" THEN "SHA256" ELSE "SHA512",
                                    self.private_key_obj, "", data)]
         ELSE [exc |-> "RuntimeError", ret |-> None]
    ELSE IF self.algorithm \in {"ES256", "ES512"}
    THEN IF SignsAsEC(self.private_key_obj)
         THEN [exc |-> "",
               ret |-> B64Signature("ECDSA",
                                    IF self.algorithm = "ES256" THEN "SHA256" ELSE "SHA512",
                                    self.private_key_obj, nonce, data)]
         ELSE [exc |-> "RuntimeError", ret |-> None]
    ELSE [exc |-> "RuntimeError", ret |-> None]

----------------------------------------------------------------------------
(* generate_signature_headers *)

\* Python truth value of an Optional[str]
Truthy(x) == x # None /\ x # <<>>

\* line 100: custom_timestamp or self.generate_timestamp(); clock_read tells
\* whether generate_timestamp was called
ResolveTimestamp(custom_timestamp, now) ==
    IF Truthy(custom_timestamp)
    THEN [timestamp |-> custom_timestamp, clock_read |-> FALSE]
    ELSE [timestamp |-> GenerateTimestamp(now), clock_read |-> TRUE]

\* lines 102-108
SignatureData(self, timestamp, method, path, body) ==
    [timestamp |-> timestamp, method |-> Upper(method), path |-> path,
     body |-> body, appId |-> self.app_id]

\* headers that never carry X-Key-Id
SignatureHeadersNoKeyId(self, signature, timestamp) ==
    [k \in {"X-Signature", "X-Timestamp", "X-App-Id"} |->
        CASE k = "X-Signature" -> signature
          [] k = "X-Timestamp" -> timestamp
          [] k = "X-App-Id" -> self.app_id]

\* lines 113-120
SignatureHeaders(self, signature, timestamp) ==
    [k \in {"X-Signature", "X-Timestamp", "X-App-Id"}
           \cup (IF Truthy(self.key_id) THEN {"X-Key-Id"} ELSE {}) |->
        CASE k = "X-Signature" -> signature
          [] k = "X-Timestamp" -> timestamp
          [] k = "X-App-Id" -> self.app_id
          [] k = "X-Key-Id" -> self.key_id]

NoHeaders == <<>>

\* generate_signature_headers(method, path, body, custom_timestamp), for the
\* reading now the clock gives and the nonce the signing draws: the headers
\* returned or the exception, with the values signed on the way
GenerateSignatureHeaders(self, method, path, body, custom_timestamp, now, nonce) ==
    LET ts == ResolveTimestamp(custom_timestamp, now)
        signature_data == SignatureData(self, ts.timestamp, method, path, body)
        data_string == BuildSignatureString(signature_data)
        signature == GenerateSignature(self, data_string.ret, nonce)
        out == [timestamp |-> ts.timestamp, clock_read |-> ts.clock_read,
                signature_data |-> signature_data, data_string |-> data_string.ret]
    IN  IF data_string.exc # ""
        THEN [exc |-> data_string.exc, ret |-> NoHeaders] @@ out
        ELSE IF signature.exc # ""
        THEN [exc |-> signature.exc, ret |-> NoHeaders] @@ out
        ELSE [exc |-> "", ret |-> SignatureHeaders(self, signature.ret, ts.timestamp)] @@ out

----------------------------------------------------------------------------
(* send_signed_request *)

\* the body argument: None, a str, a dict with str keys and values (its items
\* in order), or a list of str
NoBody == [kind |-> "none", v |-> <<>>]

StrBody(s) == [kind |-> "str", v |-> s]

DictBody(items) == [kind |-> "dict", v |-> items]

ListBody(items) == [kind |-> "list", v |-> items]

QUOTE == "\""

BACKSLASH == "\\"

RECURSIVE JsonEscape(_)
\* the characters json.dumps escapes inside a string
JsonEscape(s) ==
    IF Len(s) = 0 THEN <<>>
    ELSE (CASE Head(s) = QUOTE -> <<BACKSLASH, QUOTE>>
            [] Head(s) = BACKSLASH -> <<BACKSLASH, BACKSLASH>>
            [] Head(s) = NL -> <<BACKSLASH, "n">>
            [] OTHER -> <<Head(s)>>) \o JsonEscape(Tail(s))

JsonString(s) == <<QUOTE>> \o JsonEscape(s) \o <<QUOTE>>

\* json.dumps(body) with the default separators ", " and ": "
JsonDumps(body) ==
    IF body.kind = "dict"
    THEN <<"{">> \o Concat([i \in 1..Len(body.v) |->
                               JsonString(body.v[i][1]) \o <<":", " ">>
                               \o JsonString(body.v[i][2])], <<",", " ">>) \o <<"}">>
    ELSE <<"[">> \o Concat([i \in 1..Len(body.v) |-> JsonString(body.v[i])],
                            <<",", " ">>) \o <<"]">>

\* lines 133-135
BodyString(body) ==
    IF body.kind = "none" THEN None
    ELSE IF body.kind = "str" THEN body.v
    ELSE JsonDumps(body)

\* a merge in which the signature headers win
MergeHeadersSignatureWins(signature_headers, headers) ==
    [k \in DOMAIN signature_headers \cup DOMAIN headers |->
        IF k \in DOMAIN signature_headers THEN signature_headers[k] ELSE headers[k]]

\* lines 141-143: {**signature_headers} updated with the caller's headers
MergeHeaders(signature_headers, headers) ==
    [k \in DOMAIN signature_headers \cup DOMAIN headers |->
        IF k \in DOMAIN headers THEN headers[k] ELSE signature_headers[k]]

ApplicationJson == <<"application/json">>

\* lines 146-147
WithContentType(all_headers, body, body_string) ==
    IF Truthy(body_string) /\ body.kind # "str"
    THEN [k \in DOMAIN all_headers \cup {"Content-Type"} |->
            IF k = "Content-Type" THEN ApplicationJson ELSE all_headers[k]]
    ELSE all_headers

\* send_signed_request(method, path, body, headers): the arguments handed to
\* requests.request, or the exception; generated holds what
\* generate_signature_headers did
SendSignedRequest(self, method, path, body, headers, now, nonce) ==
    LET body_string == BodyString(body)
        url == self.base_url \o path
        generated == GenerateSignatureHeaders(self, method, path, body_string, None, now, nonce)
        all_headers == WithContentType(MergeHeaders(generated.ret, headers), body, body_string)
    IN  IF generated.exc # ""
        THEN [exc |-> generated.exc, generated |-> generated,
              request |-> [method |-> <<>>, url |-> <<>>, headers |-> NoHeaders, data |-> None]]
        ELSE [exc |-> "", generated |-> generated,
              request |-> [method |-> Upper(method), url |-> url,
                           headers |-> all_headers, data |-> body_string]]

----------------------------------------------------------------------------
(* Inputs of the object runs *)

App1 == <<"a","p","p","1">>

Key1 == <<"k","1">>

BaseUrl == <<"h",":">>

\* the config dicts: algorithm, keyId and baseUrl are optional keys
Configs ==
    {[appId |-> App1, privateKey |-> k] : k \in {"PEM_RSA", "PEM_EC_P256", "not a key"}}
    \cup {[appId |-> App1, privateKey |-> k, algorithm |-> a] :
            k \in {"PEM_RSA", "PEM_EC_P256", "PEM_EC_P521", "PEM_ED25519", "not a key"},
            a \in {"RS256", "RS512", "ES256", "ES512", "HS256", "rs256"}}
    \cup {[appId |-> App1, privateKey |-> k, algorithm |-> a, keyId |-> i] :
            k \in {"PEM_RSA", "PEM_EC_P256"}, a \in {"RS256", "ES256"},
            i \in {<<>>, Key1}}
    \cup {[appId |-> <<"x">>, privateKey |-> "PEM_RSA", algorithm |-> "RS512",
           keyId |-> Key1, baseUrl |-> BaseUrl],
          [privateKey |-> "PEM_RSA", algorithm |-> "RS256"]}

Methods == {<<"g","e","t">>, <<"P","O","S","T">>}

Paths == {<<"/","a">>}

Bodies == {None, <<>>, <<"x">>}

CustomTimestamps == {None, <<>>, T2024}

\* the body arguments of send_signed_request
RequestBodies ==
    {NoBody, StrBody(<<>>), StrBody(<<"x">>),
     DictBody(<< <<<<"n">>, <<"J", QUOTE>>>>, <<<<"e">>, <<>>>> >>),
     ListBody(<<>>)}

Fake == <<"f","a","k","e">>

\* the headers arguments of send_signed_request; None and {} are both NoHeaders
RequestHeaders ==
    {NoHeaders,
     [k \in {"Accept"} |-> <<"*">>],
     [k \in {"X-Signature"} |-> Fake],
     [k \in {"X-Key-Id", "Content-Type"} |-> IF k = "X-Key-Id" THEN Fake ELSE <<"t">>],
     [k \in {"X-Timestamp", "X-App-Id"} |-> IF k = "X-Timestamp" THEN T2024 ELSE Fake]}

----------------------------------------------------------------------------
(* The object and its callers, one call at a time *)

Self == signer[1]

Idle == last.op = "none"

\* PythonSignatureClient(config)
Construct ==
    /\ Idle
    /\ signer = <<>>
    /\ \E config \in Configs :
        /\ signer' = Init__(config).ret
        /\ last' = [op |-> "__init__", config |-> config, exc |-> Init__(config).exc]
    /\ UNCHANGED <<canon, pc, loc>>

\* client.generate_timestamp()
CallGenerateTimestamp ==
    /\ Idle
    /\ signer # <<>>
    /\ \E now \in Clock :
        last' = [op |-> "generate_timestamp", now |-> now, ret |-> GenerateTimestamp(now)]
    /\ UNCHANGED <<signer, canon, pc, loc>>

\* client.generate_signature(data)
CallGenerateSignature ==
    /\ Idle
    /\ signer # <<>>
    /\ \E data \in {<<>>, <<"d">>}, nonce \in NoncesFor(Self.algorithm) :
        last' = [op |-> "generate_signature", data |-> data,
                 out |-> GenerateSignature(Self, data, nonce)]
    /\ UNCHANGED <<signer, canon, pc, loc>>

\* client.generate_signature_headers(method, path, body, custom_timestamp)
CallGenerateSignatureHeaders ==
    /\ Idle
    /\ signer # <<>>
    /\ \E method \in Methods, path \in Paths, body \in Bodies,
          custom_timestamp \in CustomTimestamps, now \in Clock,
          nonce \in NoncesFor(Self.algorithm) :
        last' = [op |-> "generate_signature_headers", method |-> method, path |-> path,
                 body |-> body, custom_timestamp |-> custom_timestamp,
                 out |-> GenerateSignatureHeaders(Self, method, path, body,
                                                  custom_timestamp, now, nonce)]
    /\ UNCHANGED <<signer, canon, pc, loc>>

\* client.send_signed_request(method, path, body, headers)
CallSendSignedRequest ==
    /\ Idle
    /\ signer # <<>>
    /\ \E method \in Methods, path \in Paths, body \in RequestBodies,
          headers \in RequestHeaders, now \in Clock,
          nonce \in NoncesFor(Self.algorithm) :
        last' = [op |-> "send_signed_request", method |-> method, path |-> path,
                 body |-> body, headers |-> headers,
                 out |-> SendSignedRequest(Self, method, path, body, headers, now, nonce)]
    /\ UNCHANGED <<signer, canon, pc, loc>>

\* the caller has the outcome and goes on
Return ==
    /\ ~Idle
    /\ last' = NoCall
    /\ UNCHANGED <<signer, canon, pc, loc>>

----------------------------------------------------------------------------
(* Concurrent generate_signature_headers calls on one object *)

NumThreads == 2

Threads == 1..NumThreads

NoReading == [year |-> 0, month |-> 0, day |-> 0, hour |-> 0, minute |-> 0,
              second |-> 0, microsecond |-> 0]

\* the parameters and locals of a generate_signature_headers call; now is the
\* reading the call's own generate_timestamp got
EmptyFrame ==
    [method |-> None, path |-> None, body |-> None, custom_timestamp |-> None,
     now |-> NoReading, timestamp |-> None, clock_read |-> FALSE,
     data_string |-> None, signature |-> None, ret |-> NoHeaders, exc |-> ""]

\* every call reads one frame, whoever called
FrameOfFirstCaller(t) == loc[1]

\* the frame of thread t's call
Frame(t) == loc[t]

ConcMethods == {<<"g","e","t">>, <<"P","U","T">>}

ConcBodies == {None, <<"x">>}

ConcTimestamps == {None, T2024}

ConcClock == {now \in Clock : now.year = 2024}

ConcConfigs ==
    {[appId |-> App1, privateKey |-> "PEM_RSA", algorithm |-> "RS256", keyId |-> Key1]}

\* thread t enters generate_signature_headers
Call(t) ==
    /\ pc[t] = "idle"
    /\ \E method \in ConcMethods, path \in Paths, body \in ConcBodies,
          custom_timestamp \in ConcTimestamps :
        loc' = [loc EXCEPT ![t] = [EmptyFrame EXCEPT !.method = method, !.path = path,
                                       !.body = body,
                                       !.custom_timestamp = custom_timestamp]]
    /\ pc' = [pc EXCEPT ![t] = "line100"]
    /\ UNCHANGED <<signer, last, canon>>

\* line 100
StepTimestamp(t) ==
    /\ pc[t] = "line100"
    /\ \E now \in ConcClock :
        LET r == ResolveTimestamp(Frame(t).custom_timestamp, now)
        IN  loc' = [loc EXCEPT ![t].timestamp = r.timestamp,
                               ![t].clock_read = r.clock_read,
                               ![t].now = IF r.clock_read THEN now ELSE NoReading]
    /\ pc' = [pc EXCEPT ![t] = "line102"]
    /\ UNCHANGED <<signer, last, canon>>

\* lines 102-110
StepBuild(t) ==
    /\ pc[t] = "line102"
    /\ LET r == BuildSignatureString(SignatureData(Self, Frame(t).timestamp,
                    Frame(t).method, Frame(t).path, Frame(t).body))
       IN  /\ loc' = [loc EXCEPT ![t].data_string = r.ret, ![t].exc = r.exc]
           /\ pc' = [pc EXCEPT ![t] = IF r.exc = "" THEN "line111" ELSE "raised"]
    /\ UNCHANGED <<signer, last, canon>>

\* line 111
StepSign(t) ==
    /\ pc[t] = "line111"
    /\ \E nonce \in NoncesFor(Self.algorithm) :
        LET r == GenerateSignature(Self, Frame(t).data_string, nonce)
        IN  /\ loc' = [loc EXCEPT ![t].signature = r.ret, ![t].exc = r.exc]
            /\ pc' = [pc EXCEPT ![t] = IF r.exc = "" THEN "line113" ELSE "raised"]
    /\ UNCHANGED <<signer, last, canon>>

\* lines 113-122
StepHeaders(t) ==
    /\ pc[t] = "line113"
    /\ loc' = [loc EXCEPT ![t].ret = SignatureHeaders(Self, Frame(t).signature,
                                                      Frame(t).timestamp)]
    /\ pc' = [pc EXCEPT ![t] = "returned"]
    /\ UNCHANGED <<signer, last, canon>>

\* the caller of thread t has the outcome; the frame is gone
Finish(t) ==
    /\ pc[t] \in {"returned", "raised"}
    /\ pc' = [pc EXCEPT ![t] = "idle"]
    /\ loc' = [loc EXCEPT ![t] = EmptyFrame]
    /\ UNCHANGED <<signer, last, canon>>

----------------------------------------------------------------------------
(* Canonicalisation of a pair of requests *)

\* client.build_signature_string(data), for a first and a second dict
CallBuildSignatureString ==
    /\ Len(canon) < 2
    /\ \E data \in CanonData :
        canon' = Append(canon, [data |-> data, out |-> BuildSignatureString(data)])
    /\ UNCHANGED <<signer, last, pc, loc>>

----------------------------------------------------------------------------
(* Specifications *)

Init ==
    /\ signer = <<>>
    /\ last = NoCall
    /\ canon = <<>>
    /\ pc = [t \in Threads |-> "idle"]
    /\ loc = [t \in Threads |-> EmptyFrame]

Next ==
    \/ Construct
    \/ CallGenerateTimestamp
    \/ CallGenerateSignature
    \/ CallGenerateSignatureHeaders
    \/ CallSendSignedRequest
    \/ Return

Spec == Init /\ [][Next]_vars

InitConc ==
    /\ signer \in {Init__(config).ret : config \in ConcConfigs}
    /\ last = NoCall
    /\ canon = <<>>
    /\ pc = [t \in Threads |-> "idle"]
    /\ loc = [t \in Threads |-> EmptyFrame]

NextConc ==
    \E t \in Threads :
        \/ Call(t)
        \/ StepTimestamp(t)
        \/ StepBuild(t)
        \/ StepSign(t)
        \/ StepHeaders(t)
        \/ Finish(t)

SpecConc == InitConc /\ [][NextConc]_vars

NextCanon == CallBuildSignatureString

SpecCanon == Init /\ [][NextCanon]_vars

----------------------------------------------------------------------------
(* Properties *)

ExampleData ==
    [timestamp |-> T2024, method |-> <<"g","e","t">>,
     path |-> <<"/","a","p","i","/","u","s","e","r","s">>,
     appId |-> App1, body |-> <<>>]

ExampleCanonical ==
    <<"2","0","2","4","-","0","1","-","0","1","T","0","0",":","0","0",":","0","0","Z",
      NL, "G","E","T", NL, "/","a","p","i","/","u","s","e","r","s", NL,
      "a","p","p","1", NL>>

HasStrBody(data) ==
    /\ RequiredKeys \cup {"body"} \subseteq DOMAIN data
    /\ data["body"] # None

\* C1: for every dict with timestamp, method, path, appId and a str body,
\* build_signature_string returns timestamp, the upper-cased method, path,
\* appId and body in that order with one newline between neighbours and
\* nothing else; the example of the specification gives its canonical string.
C1_CanonicalForm ==
    \A i \in 1..Len(canon) :
        LET d == canon[i].data
            out == canon[i].out
        IN  /\ HasStrBody(d) =>
                /\ out.exc = ""
                /\ out.ret = d["timestamp"] \o <<NL>> \o Upper(d["method"]) \o <<NL>>
                             \o d["path"] \o <<NL>> \o d["appId"] \o <<NL>> \o d["body"]
                /\ Len(out.ret) = Len(d["timestamp"]) + Len(d["method"]) + Len(d["path"])
                                  + Len(d["appId"]) + Len(d["body"]) + 4
            /\ (HasStrBody(d) /\ d = ExampleData) => out.ret = ExampleCanonical

C1_Witness ==
    \E i \in 1..Len(canon) :
        /\ HasStrBody(canon[i].data)
        /\ canon[i].data = ExampleData
        /\ canon[i].out.ret = ExampleCanonical

\* C2: generate_signature_headers called without a body returns, and signs
\* timestamp, METHOD, path, appId and an empty body.
C2_NoBodySignsEmptyBody ==
    (last.op = "generate_signature_headers" /\ last.body = None) =>
        /\ last.out.exc = ""
        /\ last.out.data_string =
              last.out.timestamp \o <<NL>> \o Upper(last.method) \o <<NL>>
              \o last.path \o <<NL>> \o Self.app_id \o <<NL>>

\* the key kind each algorithm needs
KeyKindFor(algorithm) ==
    CASE algorithm \in {"RS256", "RS512"} -> "RSA"
      [] algorithm = "ES256" -> "EC_P256"
      [] algorithm = "ES512" -> "EC_P521"
      [] OTHER -> "none"

\* C3: no signer object has a key whose kind does not match its algorithm,
\* and no generate_signature or generate_signature_headers call fails.
C3_MismatchRejectedAtConstruction ==
    /\ signer # <<>> => Self.private_key_obj.kind = KeyKindFor(Self.algorithm)
    /\ last.op = "generate_signature" => last.out.exc = ""
    /\ last.op = "generate_signature_headers" => last.out.exc # "RuntimeError"

IsDigit(c) == \E i \in 1..Len(DigitChars) : DigitChars[i] = c

\* YYYY-MM-DDTHH:MM:SSZ
IsFixedForm(s) ==
    /\ Len(s) = 20
    /\ \A i \in 1..20 :
        CASE i \in {5, 8} -> s[i] = "-"
          [] i = 11 -> s[i] = "T"
          [] i \in {14, 17} -> s[i] = ":"
          [] i = 20 -> s[i] = "Z"
          [] OTHER -> IsDigit(s[i])

\* C4: every timestamp the signer generates itself has the form
\* YYYY-MM-DDTHH:MM:SSZ, whatever the clock reads.
C4_TimestampFixedForm ==
    /\ last.op = "generate_timestamp" => IsFixedForm(last.ret)
    /\ (last.op = "generate_signature_headers" /\ last.out.clock_read) =>
          IsFixedForm(last.out.timestamp)

HasNewline(s) == \E i \in 1..Len(s) : s[i] = NL

\* a signable request: a str body, the method upper-cased, no newline in a field
WellFormed(data) ==
    /\ HasStrBody(data)
    /\ data["method"] = Upper(data["method"])
    /\ \A k \in RequiredKeys \cup {"body"} : ~HasNewline(data[k])

\* C5: two well-formed signable requests that differ in a field have
\* different canonical strings; the example with GET and with POST differ.
C5_Injective ==
    (Len(canon) = 2 /\ WellFormed(canon[1].data) /\ WellFormed(canon[2].data)) =>
        /\ canon[1].data # canon[2].data => canon[1].out.ret # canon[2].out.ret
        /\ (/\ canon[1].data = [ExampleData EXCEPT !["method"] = <<"G","E","T">>]
            /\ canon[2].data = [ExampleData EXCEPT !["method"] = <<"P","O","S","T">>])
           => canon[1].out.ret # canon[2].out.ret

C5_Witness ==
    /\ Len(canon) = 2
    /\ WellFormed(canon[1].data)
    /\ WellFormed(canon[2].data)
    /\ canon[1].data = [ExampleData EXCEPT !["method"] = <<"G","E","T">>]
    /\ canon[2].data = [ExampleData EXCEPT !["method"] = <<"P","O","S","T">>]
    /\ canon[1].out.ret # canon[2].out.ret

\* the algorithm a signature was made with
SignatureAlgorithm(signature) ==
    CASE signature[2] = "PKCS1v15" /\ signature[3] = "SHA256" -> "RS256"
      [] signature[2] = "PKCS1v15" /\ signature[3] = "SHA512" -> "RS512"
      [] signature[2] = "ECDSA" /\ signature[3] = "SHA256" -> "ES256"
      [] signature[2] = "ECDSA" /\ signature[3] = "SHA512" -> "ES512"
      [] OTHER -> "none"

BadConfig(config) ==
    /\ {"appId", "privateKey"} \subseteq DOMAIN config
    /\ \/ DictGet(config, "algorithm", "RS256") \notin {"RS256", "RS512", "ES256", "ES512"}
       \/ config["privateKey"] \notin DOMAIN PemKinds

\* C6: a constructor given an algorithm outside the closed set or a key text
\* that does not parse raises and leaves no signer; every signer has an
\* algorithm of the closed set and the key loaded from its key text; every
\* signature is made with the signer's algorithm.
C6_FailFastConstruction ==
    /\ (last.op = "__init__" /\ BadConfig(last.config)) =>
          (last.exc = "ValueError" /\ signer = <<>>)
    /\ signer # <<>> =>
          /\ Self.algorithm \in {"RS256", "RS512", "ES256", "ES512"}
          /\ Self.private_key \in DOMAIN PemKinds
          /\ Self.private_key_obj = [kind |-> PemKinds[Self.private_key],
                                     pem |-> Self.private_key]
    /\ (last.op = "generate_signature" /\ last.out.exc = "") =>
          SignatureAlgorithm(last.out.ret) = Self.algorithm
    /\ (last.op = "generate_signature_headers" /\ last.out.exc = "") =>
          SignatureAlgorithm(last.out.ret["X-Signature"]) = Self.algorithm

C6_Witness ==
    /\ last.op = "__init__"
    /\ BadConfig(last.config)
    /\ DictGet(last.config, "algorithm", "RS256") = "HS256"
    /\ last.config["privateKey"] \in DOMAIN PemKinds
    /\ last.exc = "ValueError"
    /\ signer = <<>>

\* C7: a supplied timestamp override, the empty string included, is the
\* timestamp used; the clock is read only when none is supplied; X-Timestamp
\* is the timestamp that was signed.
C7_OverrideAlwaysUsed ==
    last.op = "generate_signature_headers" =>
        /\ last.custom_timestamp # None =>
              (last.out.timestamp = last.custom_timestamp /\ ~last.out.clock_read)
        /\ last.custom_timestamp = None => last.out.clock_read
        /\ last.out.exc = "" =>
              last.out.ret["X-Timestamp"] = last.out.signature_data["timestamp"]

\* the headers returned when X-Key-Id is wanted exactly for the key ids in present
HeaderSetFor(present) ==
    /\ DOMAIN last.out.ret =
          {"X-Signature", "X-Timestamp", "X-App-Id"}
          \cup (IF present THEN {"X-Key-Id"} ELSE {})
    /\ last.out.ret["X-App-Id"] = Self.app_id
    /\ last.out.signature_data["appId"] = Self.app_id
    /\ present => last.out.ret["X-Key-Id"] = Self.key_id

\* C8, as stated: the returned headers are X-Signature, X-Timestamp, X-App-Id
\* (the configured and signed appId) and, exactly when a keyId was
\* configured, X-Key-Id with the configured value.
C8_KeyIdIffConfigured ==
    (last.op = "generate_signature_headers" /\ last.out.exc = "") =>
        HeaderSetFor(Self.key_id # None)

\* C8, amended: the returned headers are X-Signature, X-Timestamp, X-App-Id
\* (the configured and signed appId) and, exactly when a non-empty keyId was
\* configured, X-Key-Id with the configured value.
C8_KeyIdIffNonEmpty ==
    (last.op = "generate_signature_headers" /\ last.out.exc = "") =>
        HeaderSetFor(Self.key_id # None /\ Len(Self.key_id) > 0)

C8_Witness ==
    /\ last.op = "generate_signature_headers"
    /\ last.out.exc = ""
    /\ Self.key_id = Key1
    /\ "X-Key-Id" \in DOMAIN last.out.ret
    /\ last.out.ret["X-Key-Id"] = Key1

\* what the call of thread t gives when it runs alone with its own arguments
\* and its own clock reading
Alone(t) ==
    GenerateSignatureHeaders(Self, loc[t].method, loc[t].path, loc[t].body,
                             loc[t].custom_timestamp, loc[t].now, "")

C9_OwnResult ==
    \A t \in Threads :
        pc[t] \in {"returned", "raised"} =>
            /\ loc[t].exc = Alone(t).exc
            /\ loc[t].timestamp = Alone(t).timestamp
            /\ loc[t].clock_read = Alone(t).clock_read
            /\ loc[t].data_string = Alone(t).data_string
            /\ pc[t] = "returned" =>
                  /\ DOMAIN loc[t].ret = DOMAIN Alone(t).ret
                  /\ loc[t].ret["X-Timestamp"] = Alone(t).timestamp
                  /\ loc[t].ret["X-App-Id"] = Self.app_id

\* C9: under every interleaving of generate_signature_headers calls on one
\* signer, the signer is left as constructed, and the outcome, timestamp,
\* canonical string and appId of each call are those of the call running alone
\* with its own arguments and clock reading.
C9_NoPerCallState == []C9_OwnResult /\ [][signer' = signer]_vars

C9_Witness ==
    \E t, u \in Threads :
        /\ t # u
        /\ pc[t] = "returned"
        /\ pc[u] \in {"line102", "line111", "line113"}
        /\ loc[t].method # loc[u].method
        /\ loc[t].timestamp # loc[u].timestamp
        /\ loc[t].data_string = Alone(t).data_string

SignatureHeaderNames == {"X-Signature", "X-Timestamp", "X-App-Id", "X-Key-Id"}

\* C10: the X-Signature, X-Timestamp, X-App-Id and X-Key-Id of every request
\* send_signed_request dispatches are the ones generate_signature_headers made
\* for the upper-cased method, the path and the body string sent, whatever the
\* caller's headers hold.
C10_SignatureCoversRequest ==
    (last.op = "send_signed_request" /\ last.out.exc = "") =>
        /\ \A k \in SignatureHeaderNames :
              IF k \in DOMAIN last.out.generated.ret
              THEN /\ k \in DOMAIN last.out.request.headers
                   /\ last.out.request.headers[k] = last.out.generated.ret[k]
              ELSE k \notin DOMAIN last.out.request.headers
        /\ last.out.generated.signature_data["method"] = Upper(last.method)
        /\ last.out.request.method = Upper(last.method)
        /\ last.out.generated.signature_data["path"] = last.path
        /\ last.out.generated.signature_data["body"] = last.out.request.data

====
